---- MODULE Spec2Model ----
(***************************************************************************)
(* TorGuard: the outage-detection loop of Monitor.run (src/tor_guard.py),  *)
(* the network kill-switch bring_down_network it drives, and the menu      *)
(* commands that start, stop and query the worker thread.                  *)
(*                                                                         *)
(* The worker thread is modelled as a program counter `pc` over the        *)
(* blocking points and decisions of Monitor.run; the foreground thread is  *)
(* modelled by the actions StartMonitor and StopMonitor, which interleave  *)
(* freely with the worker.  `cyc` is a history record of what the worker   *)
(* did in the current iteration of the loop (it starts afresh each time    *)
(* the loop condition is evaluated); the program itself never reads it.    *)
(***************************************************************************)
EXTENDS Integers, Sequences, FiniteSets, TLC

VARIABLES
    cfg,        \* the configuration dictionary handed to Monitor.__init__
    env,        \* the process environment: platform, nmcli presence, euid
    pc,         \* position of the worker thread in Monitor.run
    mon_stop,   \* Monitor._stop (threading.Event): is it set
    mon_state,  \* Monitor._state: "None", "True" or "False"
    attempt,    \* number of re-probes of the retry loop that have failed
    probe,      \* the last liveness evaluation: where, both signals, result
    ksTargets,  \* targets selected by the kill-switch that is in progress
    cyc,        \* history of the current detection cycle
    ksFailedBefore, \* history: a kill-switch call of this Monitor has failed
    strays,     \* live Monitor threads that self.mon / mon no longer refers to
    main,       \* main(): its position, and the locals of parse_cfg
    tor,        \* get_tor_control_port: what it reads and what it returned
    sock        \* the liveness probe: what it meets, what it tried and returned

vars == <<cfg, env, pc, mon_stop, mon_state, attempt, probe, ksTargets, cyc,
          ksFailedBefore, strays, main, tor, sock>>

----------------------------------------------------------------------------
(* Bounds of the model *)

MaxRetries == 2     \* RETRIES ranges over 1..MaxRetries
MaxUp == 3          \* longest list of active interfaces handed to choose_iface
MaxTargets == 2     \* longest list of targets on the disable-all paths

Ifaces == {"e0", "e1", "e2"}

Platforms == {"linux", "darwin", "windows", "other"}

\* Lists of at most n names without repetition, as an OS enumeration
\* reports them.
ListsUpTo(n) ==
    {s \in UNION {[1..k -> Ifaces] : k \in 0..n} :
        \A i, j \in DOMAIN s : i # j => s[i] # s[j]}

UpLists == ListsUpTo(MaxUp)

TargetLists == ListsUpTo(MaxTargets)

\* The whitelists tried.  "e0" is never whitelisted: the enumeration order
\* is free, so every position of a whitelisted name in the list still occurs.
Whitelists == SUBSET (Ifaces \ {"e0"})

----------------------------------------------------------------------------
(* Operator input: a line of text is a sequence of characters *)

YES == <<"Y", "E", "S">>

Lines ==
    { YES,
      <<" ", "Y", "E", "S", " ">>,
      <<"y", "e", "s">>,
      <<"Y">>,
      <<>>,
      <<"n", "o">> }

Whitespace == {" ", "\t"}

RECURSIVE lstrip(_)
lstrip(s) ==
    IF s = <<>> THEN s
    ELSE IF Head(s) \in Whitespace THEN lstrip(Tail(s)) ELSE s

RECURSIVE rstrip(_)
rstrip(s) ==
    IF s = <<>> THEN s
    ELSE IF s[Len(s)] \in Whitespace THEN rstrip(SubSeq(s, 1, Len(s) - 1)) ELSE s

\* str.strip()
strip(s) == rstrip(lstrip(s))

----------------------------------------------------------------------------
(* Pure decisions of the code *)

IsAlive_and(socks, proc) == socks /\ proc

IsAlive_socksOnly(socks, proc) == socks

\* alive = socks_alive(self.cfg) or have_tor_process()
IsAlive(socks, proc) == socks \/ proc

AfterGrace_noCheck(stopped) == "reprobe"

\* time.sleep(GRACE_SECONDS); if self._stop.is_set(): return
AfterGrace(stopped) == IF stopped THEN "stopped" ELSE "reprobe"

AfterReprobe_noBreak(alive, failed, retries) ==
    IF failed + 1 < retries
    THEN (IF alive THEN "loopTop" ELSE "grace")
    ELSE "warning"

AfterReprobe_skipWarning(alive, failed, retries) ==
    IF alive THEN "loopTop"
    ELSE IF failed + 1 < retries THEN "grace" ELSE "consent"

AfterReprobe_oneRetry(alive, failed, retries) ==
    IF alive THEN "loopTop" ELSE "warning"

\* The retry loop: `failed` re-probes have failed before this one.  A live
\* re-probe breaks out and continues the outer loop; the last failed one
\* falls through to the warning.
AfterReprobe(alive, failed, retries) ==
    IF alive THEN "loopTop"
    ELSE IF failed + 1 < retries THEN "grace" ELSE "warning"

ConsentGiven_nonEmpty(line) == strip(line) # <<>>

ConsentGiven_exact(line) == line = YES

\* resp = input(...).strip(); if resp == "YES"
ConsentGiven(line) == strip(line) = YES

CanDisable_any(root) == TRUE

\* if os.geteuid() != 0: print("Must be root ...") else: bring_down_network
CanDisable(root) == root

GatePassed_open(requireConfirm, line) == TRUE

GatePassed_anyCase(requireConfirm, line) ==
    IF requireConfirm THEN strip(line) \in {YES, <<"y", "e", "s">>} ELSE TRUE

\* if cfg["REQUIRE_CONFIRM"]: ok = input(...).strip(); if ok != "YES": return False
GatePassed(requireConfirm, line) ==
    IF requireConfirm THEN strip(line) = YES ELSE TRUE

RECURSIVE FirstIn(_, _)
\* for n in up: if n in wl: return n   ...   return None
FirstIn(up, wl) ==
    IF up = <<>> THEN "None"
    ELSE IF Head(up) \in wl THEN Head(up) ELSE FirstIn(Tail(up), wl)

choose_iface_first(wl, up) == IF up # <<>> THEN up[1] ELSE "None"

choose_iface_strict(wl, up) == FirstIn(up, wl)

choose_iface_fallback(wl, up) ==
    IF wl # {} /\ FirstIn(up, wl) # "None" THEN FirstIn(up, wl)
    ELSE IF up # <<>> THEN up[1]
    ELSE "None"

choose_iface_lo(wl, up) ==
    IF wl # {} /\ FirstIn(up, wl) # "None" THEN FirstIn(up, wl)
    ELSE IF wl = {} /\ up # <<>> THEN up[1]
    ELSE "lo"

choose_iface(wl, up) ==
    IF wl # {} THEN FirstIn(up, wl)
    ELSE IF up # <<>> THEN up[1]
    ELSE "None"

----------------------------------------------------------------------------
(* State *)

CycInit ==
    [ fails       |-> 0,        \* failed probes of this cycle
      recovered   |-> FALSE,    \* a re-probe of this cycle succeeded
      stopInGrace |-> FALSE,    \* stop() arrived during a grace delay
      warn        |-> 0,        \* calls of show_fullscreen_warning
      warnRet     |-> 0,        \* returns of show_fullscreen_warning
      presenter   |-> "none",
      ack         |-> FALSE,    \* the operator acknowledged the warning
      prompts     |-> 0,        \* consent prompts issued by Monitor.run
      resp        |-> <<>>,     \* <<line>> once the consent prompt is answered
      ks          |-> 0,        \* calls of bring_down_network
      ksAfterStop |-> FALSE,    \* bring_down_network was called with _stop set
      enum        |-> <<>>,     \* <<list>> once targets were enumerated
      chosen      |-> "NA",     \* result of choose_iface
      gate        |-> 0,        \* kill-switch prompts issued
      gateResp    |-> <<>>,     \* <<line>> once the kill-switch prompt is answered
      cmds        |-> <<>>,     \* disabling commands issued, with results
      abort       |-> "none",   \* why the cycle was abandoned
      said        |-> "none",   \* what Monitor.run printed on its last branch
      slept       |-> FALSE ]   \* a CHECK_INTERVAL sleep followed the abort

ProbeInit == [at |-> "none", socks |-> FALSE, proc |-> FALSE, alive |-> FALSE]

Configs ==
    [ RETRIES : 1..MaxRetries,
      REQUIRE_CONFIRM : BOOLEAN,
      USE_TK : BOOLEAN,
      INTERFACE_WHITELIST : Whitelists ]

\* nmcli is only ever looked for on the Linux path, so its presence is
\* only varied there.
Envs ==
    {e \in [platform : Platforms, nmcli : BOOLEAN, root : BOOLEAN] :
        e.nmcli => e.platform = "linux"}

\* main() has parsed and validated the configuration and is in the curses
\* menu; the locals of parse_cfg are gone.
MainInMenu == [pc |-> "menu", raw |-> <<>>, ln |-> 0, valid |-> "True"]

\* No liveness probe is being followed connection by connection.
SockIdle ==
    [ conn |-> <<>>, pgrep |-> "none", tried |-> <<>>, pgrepCalled |-> FALSE,
      result |-> [kind |-> "idle", socks |-> FALSE, proc |-> FALSE,
                  alive |-> FALSE] ]

\* get_tor_control_port is not being evaluated.
TorIdle == [files |-> <<>>, open |-> {}, result |-> [kind |-> "idle", port |-> 0]]

Init ==
    /\ cfg \in Configs
    /\ env \in Envs
    /\ pc = "notStarted"
    /\ mon_stop = FALSE
    /\ mon_state = "None"
    /\ attempt = 0
    /\ probe = ProbeInit
    /\ ksTargets = <<>>
    /\ cyc = CycInit
    /\ ksFailedBefore = FALSE
    /\ strays = 0
    /\ main = MainInMenu
    /\ tor = TorIdle
    /\ sock = SockIdle

\* threading.Thread.is_alive() of the current Monitor, as the menu and main
\* rely on it while the worker runs.  (Monitor.__init__ rebinds the name
\* _stop, which threading.Thread of Python <= 3.12 calls from is_alive() and
\* join() once the thread has ended; the foreground then gets a TypeError
\* instead of False.  In the menu that error reaches main's curses
\* fallback, which starts a new Monitor, so StartMonitor below covers both
\* outcomes.)
WorkerAlive == pc \notin {"notStarted", "stopped", "terminated", "crashed"}


----------------------------------------------------------------------------
(* Foreground: the menu (or the headless main loop) starting and stopping  *)
(* the worker                                                              *)

start_monitor_always(alive) == "Monitor started."

\* What MenuApp.start_monitor answers: `alive` is self.mon and
\* self.mon.is_alive()
start_monitor(alive) ==
    IF alive THEN "Monitor already running." ELSE "Monitor started."

\* Monitor(cfg).start(): a fresh Monitor takes the place of the one the
\* foreground held; if that one's thread is still alive it runs on unheld.
NewMonitor ==
    /\ strays' = strays + (IF WorkerAlive THEN 1 ELSE 0)
    /\ pc' = "loopTop"
    /\ mon_stop' = FALSE
    /\ mon_state' = "None"
    /\ attempt' = 0
    /\ probe' = ProbeInit
    /\ ksTargets' = <<>>
    /\ cyc' = CycInit
    /\ ksFailedBefore' = FALSE

\* MenuApp.start_monitor: the menu's "Start Monitor" command
StartMonitor ==
    /\ main.pc = "menu"
    /\ IF start_monitor(WorkerAlive) = "Monitor started."
       THEN NewMonitor /\ UNCHANGED <<cfg, env, main, tor, sock>>
       ELSE UNCHANGED vars

StopMonitor_toggle ==
    /\ WorkerAlive
    /\ mon_stop' = ~mon_stop
    /\ cyc' = [cyc EXCEPT !.stopInGrace = @ \/ pc = "grace"]
    /\ UNCHANGED <<cfg, env, pc, mon_state, attempt, probe, ksTargets, ksFailedBefore,
                 strays, main, tor, sock>>

StopMonitor_marksDown ==
    /\ WorkerAlive
    /\ mon_stop' = TRUE
    /\ mon_state' = "False"
    /\ cyc' = [cyc EXCEPT !.stopInGrace = @ \/ pc = "grace"]
    /\ UNCHANGED <<cfg, env, pc, attempt, probe, ksTargets, ksFailedBefore,
                   strays, main, tor, sock>>

\* MenuApp.stop_monitor / KeyboardInterrupt in main: Monitor.stop()
StopMonitor ==
    /\ WorkerAlive
    /\ mon_stop' = TRUE
    /\ cyc' = [cyc EXCEPT !.stopInGrace = @ \/ pc = "grace"]
    /\ UNCHANGED <<cfg, env, pc, mon_state, attempt, probe, ksTargets, ksFailedBefore,
                 strays, main, tor, sock>>

----------------------------------------------------------------------------
(* Worker: Monitor.run *)

LoopTop_ignoreStop ==
    /\ pc = "loopTop"
    /\ pc' = "probe"
    /\ cyc' = CycInit
    /\ UNCHANGED <<cfg, env, mon_stop, mon_state, attempt, probe, ksTargets, ksFailedBefore,
                 strays, main, tor, sock>>

\* while not self._stop.is_set():   (a new iteration: the cycle history
\* starts afresh)
LoopTop ==
    /\ pc = "loopTop"
    /\ pc' = IF mon_stop THEN "stopped" ELSE "probe"
    /\ cyc' = CycInit
    /\ UNCHANGED <<cfg, env, mon_stop, mon_state, attempt, probe, ksTargets, ksFailedBefore,
                 strays, main, tor, sock>>

\* The steady-state probe and the branch taken on it.
Probe(socks, proc) ==
    /\ pc = "probe"
    /\ LET alive == IsAlive(socks, proc) IN
        /\ probe' = [at |-> "top", socks |-> socks, proc |-> proc, alive |-> alive]
        /\ attempt' = 0
        /\ IF alive
           THEN /\ mon_state' = "True"
                /\ pc' = "sleepInterval"
                /\ cyc' = CycInit
           ELSE /\ mon_state' = mon_state
                /\ pc' = "grace"
                /\ cyc' = [CycInit EXCEPT !.fails = 1]
    /\ UNCHANGED <<cfg, env, mon_stop, ksTargets, ksFailedBefore, strays, main, tor, sock>>

\* time.sleep(CHECK_INTERVAL); continue
IntervalWake ==
    /\ pc = "sleepInterval"
    /\ pc' = "loopTop"
    /\ UNCHANGED <<cfg, env, mon_stop, mon_state, attempt, probe, ksTargets, cyc, ksFailedBefore,
                 strays, main, tor, sock>>

\* time.sleep(GRACE_SECONDS) is over; the stop flag is looked at
GraceWake ==
    /\ pc = "grace"
    /\ pc' = AfterGrace(mon_stop)
    /\ UNCHANGED <<cfg, env, mon_stop, mon_state, attempt, probe, ksTargets, cyc, ksFailedBefore,
                 strays, main, tor, sock>>

\* One re-probe of the retry loop and what follows it.
Reprobe(socks, proc) ==
    /\ pc = "reprobe"
    /\ LET alive == IsAlive(socks, proc) IN
        /\ probe' = [at |-> "retry", socks |-> socks, proc |-> proc, alive |-> alive]
        /\ pc' = AfterReprobe(alive, attempt, cfg.RETRIES)
        /\ IF alive
           THEN /\ mon_state' = "True"
                /\ attempt' = attempt
                /\ cyc' = [cyc EXCEPT !.recovered = TRUE]
           ELSE /\ mon_state' = mon_state
                /\ attempt' = attempt + 1
                /\ cyc' = [cyc EXCEPT !.fails = @ + 1]
    /\ UNCHANGED <<cfg, env, mon_stop, ksTargets, ksFailedBefore, strays, main, tor, sock>>

TkResults == {"ok", "tclerror", "importerror"}

\* show_fullscreen_warning picks its presenter.  `image`: the configured
\* image exists and a viewer could be spawned.  `tk`: what
\* tk_fullscreen_warning meets; a failed `import tkinter` leaves the name tk
\* unbound when the except clause is evaluated, which raises out of run().
Presenter(useTk, image, tk) ==
    IF image THEN "image"
    ELSE IF useTk /\ tk = "ok" THEN "tk"
    ELSE IF useTk /\ tk = "importerror" THEN "raise"
    ELSE "ascii"

WarningBegin(image, tk) ==
    /\ pc = "warning"
    /\ LET p == Presenter(cfg.USE_TK, image, tk) IN
        /\ cyc' = [cyc EXCEPT !.warn = @ + 1, !.presenter = p]
        /\ pc' = IF p = "raise" THEN "crashed" ELSE "warningShown"
    /\ UNCHANGED <<cfg, env, mon_stop, mon_state, attempt, probe, ksTargets, ksFailedBefore,
                 strays, main, tor, sock>>

AfterWarning_noCheck(stopped) == "consent"

\* if self._stop.is_set(): return   /   resp = input(...)
AfterWarning(stopped) == IF stopped THEN "stopped" ELSE "consent"

\* The presenter returns: the image viewer was only spawned (no
\* acknowledgement), the Tk window was dismissed, or Enter was pressed.
WarningReturn ==
    /\ pc = "warningShown"
    /\ pc' = AfterWarning(mon_stop)
    /\ cyc' = [cyc EXCEPT !.warnRet = @ + 1,
                          !.ack = (cyc.presenter # "image"),
                          !.prompts = IF AfterWarning(mon_stop) = "consent"
                                      THEN @ + 1 ELSE @]
    /\ UNCHANGED <<cfg, env, mon_stop, mon_state, attempt, probe, ksTargets, ksFailedBefore,
                 strays, main, tor, sock>>

\* input() in ascii_red_box meets end-of-input: EOFError leaves run()
WarningEOF ==
    /\ pc = "warningShown"
    /\ cyc.presenter = "ascii"
    /\ pc' = "crashed"
    /\ UNCHANGED <<cfg, env, mon_stop, mon_state, attempt, probe, ksTargets, cyc, ksFailedBefore,
                 strays, main, tor, sock>>

\* The operator answers "Proceed to disable network now?"
Consent(line) ==
    /\ pc = "consent"
    /\ IF ConsentGiven(line)
       THEN IF ~CanDisable(env.root)
            THEN /\ pc' = "loopTop"
                 /\ cyc' = [cyc EXCEPT !.resp = <<line>>, !.abort = "notRoot",
                                       !.said = "Must be root"]
                 /\ mon_state' = mon_state
            ELSE /\ pc' = "ksDispatch"
                 /\ cyc' = [cyc EXCEPT !.resp = <<line>>, !.ks = @ + 1,
                                       !.ksAfterStop = mon_stop]
                 /\ mon_state' = mon_state
       ELSE /\ pc' = "sleepAbort"
            /\ cyc' = [cyc EXCEPT !.resp = <<line>>, !.abort = "refused",
                                  !.said = "User aborted"]
            /\ mon_state' = "False"
    /\ UNCHANGED <<cfg, env, mon_stop, attempt, probe, ksTargets, ksFailedBefore,
                 strays, main, tor, sock>>

\* input() at the consent prompt meets end-of-input
ConsentEOF ==
    /\ pc = "consent"
    /\ pc' = "crashed"
    /\ UNCHANGED <<cfg, env, mon_stop, mon_state, attempt, probe, ksTargets, cyc, ksFailedBefore,
                 strays, main, tor, sock>>

\* time.sleep(CHECK_INTERVAL) of the refusal branch
AbortWake ==
    /\ pc = "sleepAbort"
    /\ pc' = "loopTop"
    /\ cyc' = [cyc EXCEPT !.slept = TRUE]
    /\ UNCHANGED <<cfg, env, mon_stop, mon_state, attempt, probe, ksTargets, ksFailedBefore,
                 strays, main, tor, sock>>


----------------------------------------------------------------------------
(* Kill-switch: bring_down_network and its platform paths *)

AfterKillSwitch_noExit(success) == "loopTop"

AfterKillSwitch_exitOnFailure(success) == IF success THEN "terminated" ELSE "crashed"

\* success = bring_down_network(self.cfg); if success: ... sys.exit(0)
\* and otherwise on to the next iteration of the loop
AfterKillSwitch(success) == IF success THEN "terminated" ELSE "loopTop"

\* `return False` of a kill-switch path, back in Monitor.run: success is
\* false, nothing is printed, and the loop goes round.
KsFail(c) ==
    /\ pc' = AfterKillSwitch(FALSE)
    /\ ksTargets' = <<>>
    /\ cyc' = [c EXCEPT !.abort = "ksFailed"]
    /\ ksFailedBefore' = TRUE

\* A kill-switch path has its targets and goes on to its confirmation gate.
KsProceed(targets, c) ==
    /\ pc' = "ksGate"
    /\ ksTargets' = targets
    /\ cyc' = c
    /\ ksFailedBefore' = ksFailedBefore

\* bring_down_network_linux with nmcli present: the global toggle
KsLinuxNm ==
    /\ pc = "ksDispatch"
    /\ env.platform = "linux" /\ env.nmcli
    /\ KsProceed(<<"networking">>, cyc)
    /\ UNCHANGED <<cfg, env, mon_stop, mon_state, attempt, probe, strays, main, tor, sock>>

\* bring_down_network_linux without nmcli: choose_iface over `ip -o link show up`
KsLinuxIp(up) ==
    /\ pc = "ksDispatch"
    /\ env.platform = "linux" /\ ~env.nmcli
    /\ LET iface == choose_iface(cfg.INTERFACE_WHITELIST, up)
           c == [cyc EXCEPT !.enum = <<up>>, !.chosen = iface]
       IN  IF iface = "None"
           THEN KsFail(c)
           ELSE KsProceed(<<iface>>, c)
    /\ UNCHANGED <<cfg, env, mon_stop, mon_state, attempt, probe, strays, main, tor, sock>>

\* bring_down_network_macos: every listed network service; the listing
\* command itself may fail
KsMacos(listed, services) ==
    /\ pc = "ksDispatch"
    /\ env.platform = "darwin"
    /\ IF ~listed
       THEN KsFail(cyc)
       ELSE LET c == [cyc EXCEPT !.enum = <<services>>] IN
            IF services = <<>>
            THEN KsFail(c)
            ELSE KsProceed(services, c)
    /\ UNCHANGED <<cfg, env, mon_stop, mon_state, attempt, probe, strays, main, tor, sock>>

\* bring_down_network_windows: every connected interface
KsWindows(up) ==
    /\ pc = "ksDispatch"
    /\ env.platform = "windows"
    /\ LET c == [cyc EXCEPT !.enum = <<up>>] IN
       IF up = <<>>
       THEN KsFail(c)
       ELSE KsProceed(up, c)
    /\ UNCHANGED <<cfg, env, mon_stop, mon_state, attempt, probe, strays, main, tor, sock>>

\* bring_down_network on any other platform
KsUnsupported ==
    /\ pc = "ksDispatch"
    /\ env.platform = "other"
    /\ KsFail(cyc)
    /\ UNCHANGED <<cfg, env, mon_stop, mon_state, attempt, probe, strays, main, tor, sock>>

\* The kill-switch's own "Type YES to proceed" gate
KsGate(line) ==
    /\ pc = "ksGate"
    /\ LET c == IF cfg.REQUIRE_CONFIRM
                THEN [cyc EXCEPT !.gate = @ + 1, !.gateResp = <<line>>]
                ELSE cyc
       IN  IF GatePassed(cfg.REQUIRE_CONFIRM, line)
           THEN /\ pc' = "ksRun"
                /\ cyc' = c
                /\ UNCHANGED <<ksTargets, ksFailedBefore>>
           ELSE KsFail(c)
    /\ UNCHANGED <<cfg, env, mon_stop, mon_state, attempt, probe, strays, main, tor, sock>>

\* input() at the kill-switch gate meets end-of-input
KsGateEOF ==
    /\ pc = "ksGate"
    /\ cfg.REQUIRE_CONFIRM
    /\ pc' = "crashed"
    /\ cyc' = [cyc EXCEPT !.gate = @ + 1]
    /\ UNCHANGED <<cfg, env, mon_stop, mon_state, attempt, probe, ksTargets, ksFailedBefore,
                 strays, main, tor, sock>>

\* Result of one subprocess.call: return code 0, a non-zero return code, or
\* TimeoutExpired / FileNotFoundError
Rcs == {"rc0", "rc1", "exc"}

DisableCmd_ipAlways ==
    IF env.platform = "linux" THEN "ip link set down"
    ELSE IF env.platform = "darwin" THEN "networksetup -setnetworkserviceenabled off"
    ELSE "netsh interface set interface admin=disable"

\* The command each platform path hands to subprocess.call
DisableCmd ==
    IF env.platform = "linux"
    THEN (IF env.nmcli THEN "nmcli networking off" ELSE "ip link set down")
    ELSE IF env.platform = "darwin" THEN "networksetup -setnetworkserviceenabled off"
    ELSE "netsh interface set interface admin=disable"

Success_first(rcs) == rcs[1] = "rc0"

\* return rc == 0   /   success stays True only if every rc was 0
Success(rcs) == \A i \in DOMAIN rcs : rcs[i] = "rc0"

\* The disabling commands, one per selected target, and the return to
\* Monitor.run: on success "Network disabled." and the re-enable guidance
\* are printed and sys.exit(0) ends run()
KsRun(rcs) ==
    /\ pc = "ksRun"
    /\ DOMAIN rcs = DOMAIN ksTargets
    /\ LET c == [cyc EXCEPT !.cmds =
                    [i \in DOMAIN ksTargets |->
                        [cmd |-> DisableCmd, target |-> ksTargets[i], rc |-> rcs[i]]]]
       IN  IF Success(rcs)
           THEN /\ pc' = AfterKillSwitch(TRUE)
                /\ cyc' = [c EXCEPT !.said = "Network disabled; re-enable guidance"]
                /\ ksTargets' = <<>>
                /\ ksFailedBefore' = ksFailedBefore
           ELSE KsFail(c)
    /\ UNCHANGED <<cfg, env, mon_stop, mon_state, attempt, probe, strays, main, tor, sock>>

\* MenuApp.status: a snapshot of the worker for the operator
status ==
    IF WorkerAlive
    THEN (IF mon_state = "None" THEN "Monitor: RUNNING | State: unknown"
          ELSE IF mon_state = "True" THEN "Monitor: RUNNING | State: Tor OK"
          ELSE "Monitor: RUNNING | State: Tor DOWN")
    ELSE "Monitor: STOPPED"

\* The menu's Status command: it reads and changes nothing
Status ==
    /\ status \in STRING
    /\ UNCHANGED vars

----------------------------------------------------------------------------

Next ==
    \/ StartMonitor
    \/ StopMonitor
    \/ Status
    \/ LoopTop
    \/ \E s, p \in BOOLEAN : Probe(s, p)
    \/ IntervalWake
    \/ GraceWake
    \/ \E s, p \in BOOLEAN : Reprobe(s, p)
    \/ \E image \in BOOLEAN, tk \in TkResults : WarningBegin(image, tk)
    \/ WarningReturn
    \/ WarningEOF
    \/ \E line \in Lines : Consent(line)
    \/ ConsentEOF
    \/ AbortWake
    \/ KsLinuxNm
    \/ pc = "ksDispatch" /\ \E up \in UpLists : KsLinuxIp(up)
    \/ pc = "ksDispatch" /\ \E listed \in BOOLEAN, services \in TargetLists :
            KsMacos(listed, services)
    \/ pc = "ksDispatch" /\ \E up \in TargetLists : KsWindows(up)
    \/ KsUnsupported
    \/ \E line \in Lines : KsGate(line)
    \/ KsGateEOF
    \/ pc = "ksRun" /\ \E rcs \in UNION {[1..n -> Rcs] : n \in 1..MaxTargets} :
            KsRun(rcs)

Spec == Init /\ [][Next]_vars

----------------------------------------------------------------------------
(* The same program with a worker thread that keeps running.  Whether the   *)
(* worker ends does not depend on which interfaces are listed or on how a   *)
(* refusal is spelled, so the inputs are fewer: an affirmative and a        *)
(* negative line, enumerations of at most one name, and a whitelist that    *)
(* is empty or names one interface.                                         *)

LiveLines == {YES, <<"n", "o">>}

LiveLists == ListsUpTo(1)

InitLive ==
    /\ Init
    /\ cfg.INTERFACE_WHITELIST \in {{}, {"e1"}}

\* The steps of the worker thread in which a sleep ends, a probe or a
\* command returns, the warning is presented and returns, or the operator
\* answers a prompt.
Worker ==
    \/ LoopTop
    \/ \E s, p \in BOOLEAN : Probe(s, p)
    \/ IntervalWake
    \/ GraceWake
    \/ \E s, p \in BOOLEAN : Reprobe(s, p)
    \/ \E image \in BOOLEAN, tk \in TkResults : WarningBegin(image, tk)
    \/ WarningReturn
    \/ \E line \in LiveLines : Consent(line)
    \/ AbortWake
    \/ KsLinuxNm
    \/ \E up \in LiveLists : KsLinuxIp(up)
    \/ \E listed \in BOOLEAN, services \in LiveLists : KsMacos(listed, services)
    \/ \E up \in LiveLists : KsWindows(up)
    \/ KsUnsupported
    \/ \E line \in LiveLines : KsGate(line)
    \/ \E rcs \in [DOMAIN ksTargets -> Rcs] : KsRun(rcs)

NextLive ==
    \/ StartMonitor
    \/ StopMonitor
    \/ Status
    \/ WarningEOF
    \/ ConsentEOF
    \/ KsGateEOF
    \/ Worker

\* Fairness: the operating system schedules the worker thread, sleeps end,
\* probes and commands return within their timeouts, and a prompt that is
\* waiting is answered.
SpecLive == InitLive /\ [][NextLive]_vars /\ WF_vars(Worker)


----------------------------------------------------------------------------
(* Configuration: parse_cfg and validate_config                            *)
(*                                                                         *)
(* A line of the configuration file is given by what parse_cfg's first     *)
(* test makes of it: a line it passes over (blank, comment, no "="), or a  *)
(* key and the text after the first "=".  The text is a sequence of        *)
(* characters and is converted as the code converts it.                    *)

MaxLines == 2       \* longest configuration file read

Digits == {"0", "1", "2", "3", "4", "5", "6", "7", "8", "9"}

DigitVal(c) ==
    CASE c = "0" -> 0 [] c = "1" -> 1 [] c = "2" -> 2 [] c = "3" -> 3
      [] c = "4" -> 4 [] c = "5" -> 5 [] c = "6" -> 6 [] c = "7" -> 7
      [] c = "8" -> 8 [] c = "9" -> 9

RECURSIVE Decimal(_)
Decimal(d) ==
    IF d = <<>> THEN 0
    ELSE Decimal(SubSeq(d, 1, Len(d) - 1)) * 10 + DigitVal(d[Len(d)])

\* int(s) of a str: surrounding whitespace and one sign are allowed, the
\* rest must be decimal digits; anything else is ValueError (ok = FALSE).
int(s) ==
    LET t == strip(s)
        signed == t # <<>> /\ t[1] \in {"+", "-"}
        d == IF signed THEN Tail(t) ELSE t
    IN  IF d # <<>> /\ \A i \in DOMAIN d : d[i] \in Digits
        THEN [ok |-> TRUE,
              val |-> IF t[1] = "-" THEN 0 - Decimal(d) ELSE Decimal(d)]
        ELSE [ok |-> FALSE, val |-> 0]

UpperCase == <<"A", "B", "C", "D", "E", "F", "G", "H", "I", "J", "K", "L", "M",
               "N", "O", "P", "Q", "R", "S", "T", "U", "V", "W", "X", "Y", "Z">>

LowerCase == <<"a", "b", "c", "d", "e", "f", "g", "h", "i", "j", "k", "l", "m",
               "n", "o", "p", "q", "r", "s", "t", "u", "v", "w", "x", "y", "z">>

\* str.lower()
lower(s) ==
    [i \in DOMAIN s |->
        IF \E n \in DOMAIN UpperCase : UpperCase[n] = s[i]
        THEN LowerCase[CHOOSE n \in DOMAIN UpperCase : UpperCase[n] = s[i]]
        ELSE s[i]]

\* v.split(",")
RECURSIVE split(_)
split(v) ==
    IF \A i \in DOMAIN v : v[i] # "," THEN <<v>>
    ELSE LET i == CHOOSE i \in DOMAIN v :
                      v[i] = "," /\ \A j \in 1..(i - 1) : v[j] # ","
         IN  <<SubSeq(v, 1, i - 1)>> \o split(SubSeq(v, i + 1, Len(v)))

NonBlank(x) == strip(x) # <<>>

\* [x.strip() for x in v.split(",") if x.strip()]
items(v) ==
    LET kept == SelectSeq(split(v), NonBlank)
    IN  [i \in DOMAIN kept |-> strip(kept[i])]

to_bool_noLower(v) ==
    strip(v) \in { <<"1">>, <<"t", "r", "u", "e">>, <<"y", "e", "s">>,
                   <<"y">>, <<"o", "n">> }

\* to_bool: str(v).strip().lower() in ("1", "true", "yes", "y", "on")
to_bool(v) ==
    lower(strip(v)) \in { <<"1">>, <<"t", "r", "u", "e">>, <<"y", "e", "s">>,
                          <<"y">>, <<"o", "n">> }

socks_ports_lenient(v) ==
    LET kept == SelectSeq(SelectSeq(split(v), NonBlank),
                          LAMBDA x : int(x).ok)
    IN  [ok |-> TRUE, val |-> [i \in DOMAIN kept |-> int(kept[i]).val]]

\* [int(x) for x in v.split(",") if x.strip()]: one piece that is not a
\* number raises ValueError for the whole list
socks_ports(v) ==
    LET kept == SelectSeq(split(v), NonBlank)
    IN  IF \A i \in DOMAIN kept : int(kept[i]).ok
        THEN [ok |-> TRUE, val |-> [i \in DOMAIN kept |-> int(kept[i]).val]]
        ELSE [ok |-> FALSE, val |-> <<>>]

\* The dictionary parse_cfg starts from
DefaultCfg ==
    [ SOCKS_PORTS |-> <<9050, 9150>>,
      CHECK_HOSTS |-> << <<"1", "2", "7", ".", "0", ".", "0", ".", "1">>,
                         <<":", ":", "1">> >>,
      GRACE_SECONDS |-> 8,
      RETRIES |-> 2,
      CHECK_INTERVAL |-> 3,
      REQUIRE_CONFIRM |-> TRUE,
      USE_TK |-> TRUE,
      USE_CURSES |-> TRUE,
      RED_IMAGE_PATH |-> <<>>,
      INTERFACE_WHITELIST |-> <<>> ]

Skipped(kind) == [kind |-> kind, k |-> "", v |-> <<>>]

KV(k, v) == [kind |-> "kv", k |-> k, v |-> v]

\* The lines a configuration file is made of here
CfgLines ==
    { Skipped("blank"), Skipped("comment"), Skipped("noeq"),
      KV("SOCKS_PORTS", <<"9", "0", "5", "0">>),
      KV("SOCKS_PORTS", <<"9", "0", "5", "0", ",", "a", "b", "c">>),
      KV("SOCKS_PORTS", <<"0">>),
      KV("SOCKS_PORTS", <<" ", "1", " ", ",", " ", "6", "5", "5", "3", "5">>),
      KV("SOCKS_PORTS", <<"6", "5", "5", "3", "6">>),
      KV("SOCKS_PORTS", <<>>),
      KV("CHECK_HOSTS", <<>>),
      KV("CHECK_HOSTS", <<"h", ",", " ", "g">>),
      KV("GRACE_SECONDS", <<"-", "1">>),
      KV("GRACE_SECONDS", <<"0">>),
      KV("GRACE_SECONDS", <<"x">>),
      KV("RETRIES", <<"0">>),
      KV("RETRIES", <<"3">>),
      KV("RETRIES", <<>>),
      KV("CHECK_INTERVAL", <<"0">>),
      KV("CHECK_INTERVAL", <<"5">>),
      KV("CHECK_INTERVAL", <<"1", ".", "5">>),
      KV("REQUIRE_CONFIRM", <<"1">>),
      KV("REQUIRE_CONFIRM", <<"t", "r", "u", "e">>),
      KV("REQUIRE_CONFIRM", <<"f", "a", "l", "s", "e">>),
      KV("REQUIRE_CONFIRM", <<"n", "o">>),
      KV("REQUIRE_CONFIRM", <<" ", "Y", "e", "s", " ">>),
      KV("REQUIRE_CONFIRM", <<>>),
      KV("USE_TK", <<"y", "e", "s">>),
      KV("USE_TK", <<"y">>),
      KV("USE_TK", <<"0">>),
      KV("USE_TK", <<"o", "f", "f">>),
      KV("USE_CURSES", <<"o", "n">>),
      KV("USE_CURSES", <<"O", "N">>),
      KV("USE_CURSES", <<"2">>),
      KV("USE_CURSES", <<"T", "R", "U", "E">>),
      KV("USE_CURSES", <<"t">>),
      KV("RED_IMAGE_PATH", <<" ", "r", " ">>),
      KV("INTERFACE_WHITELIST", <<"e", "1", ",", " ", "e", "2">>),
      KV("COLOUR", <<"1">>) }

CfgFiles == UNION {[1..n -> CfgLines] : n \in 0..MaxLines}

\* One pass of the body of `for line in raw`: the dictionary after the line
parse_line(c, line) ==
    IF line.kind # "kv" THEN c
    ELSE LET k == line.k
             v == strip(line.v)
         IN  CASE k = "SOCKS_PORTS" ->
                    IF socks_ports(v).ok
                    THEN [c EXCEPT !.SOCKS_PORTS = socks_ports(v).val]
                    ELSE c
               [] k = "CHECK_HOSTS" -> [c EXCEPT !.CHECK_HOSTS = items(v)]
               [] k \in {"GRACE_SECONDS", "RETRIES", "CHECK_INTERVAL"} ->
                    IF int(v).ok THEN [c EXCEPT ![k] = int(v).val] ELSE c
               [] k \in {"REQUIRE_CONFIRM", "USE_TK", "USE_CURSES"} ->
                    [c EXCEPT ![k] = to_bool(v)]
               [] k = "RED_IMAGE_PATH" -> [c EXCEPT !.RED_IMAGE_PATH = strip(v)]
               [] k = "INTERFACE_WHITELIST" ->
                    [c EXCEPT !.INTERFACE_WHITELIST = items(v)]
               [] OTHER -> c

validate_port_zero(port) == 0 <= port /\ port <= 65535

validate_port(port) == 1 <= port /\ port <= 65535

validate_config(c) ==
    /\ \A i \in DOMAIN c.SOCKS_PORTS : validate_port(c.SOCKS_PORTS[i])
    /\ c.CHECK_HOSTS # <<>>
    /\ ~(c.GRACE_SECONDS < 0)
    /\ ~(c.RETRIES < 1)
    /\ ~(c.CHECK_INTERVAL < 1)

----------------------------------------------------------------------------
(* Start-up: main() from reading the configuration to the first Monitor *)

MainInit == [pc |-> "read", raw |-> <<>>, ln |-> 0, valid |-> "NA"]

\* parse_cfg: raw = p.read_text().splitlines()
ReadCfg(file) ==
    /\ main.pc = "read"
    /\ main' = [main EXCEPT !.pc = "parse", !.raw = file, !.ln = 1]
    /\ UNCHANGED <<cfg, env, pc, mon_stop, mon_state, attempt, probe, ksTargets,
                   cyc, ksFailedBefore, strays, tor, sock>>

\* parse_cfg: the file cannot be read; the defaults are returned
ReadCfgFails ==
    /\ main.pc = "read"
    /\ main' = [main EXCEPT !.pc = "validate"]
    /\ UNCHANGED <<cfg, env, pc, mon_stop, mon_state, attempt, probe, ksTargets,
                   cyc, ksFailedBefore, strays, tor, sock>>

\* parse_cfg: one iteration of `for line in raw`
ParseLine ==
    /\ main.pc = "parse"
    /\ main.ln <= Len(main.raw)
    /\ cfg' = parse_line(cfg, main.raw[main.ln])
    /\ main' = [main EXCEPT !.ln = @ + 1]
    /\ UNCHANGED <<env, pc, mon_stop, mon_state, attempt, probe, ksTargets,
                   cyc, ksFailedBefore, strays, tor, sock>>

\* parse_cfg: return cfg
ParseReturn ==
    /\ main.pc = "parse"
    /\ main.ln > Len(main.raw)
    /\ main' = [main EXCEPT !.pc = "validate", !.raw = <<>>, !.ln = 0]
    /\ UNCHANGED <<cfg, env, pc, mon_stop, mon_state, attempt, probe, ksTargets,
                   cyc, ksFailedBefore, strays, tor, sock>>

AfterValidate_ignore(valid) == "deps"

\* if not validate_config(cfg): ... sys.exit(1)
AfterValidate(valid) == IF valid THEN "deps" ELSE "exit1"

Validate ==
    /\ main.pc = "validate"
    /\ LET valid == validate_config(cfg) IN
       main' = [main EXCEPT !.pc = AfterValidate(valid),
                            !.valid = IF valid THEN "True" ELSE "False"]
    /\ UNCHANGED <<cfg, env, pc, mon_stop, mon_state, attempt, probe, ksTargets,
                   cyc, ksFailedBefore, strays, tor, sock>>

\* check_dependencies: without ip or pgrep the program exits
CheckDeps(ok) ==
    /\ main.pc = "deps"
    /\ main' = [main EXCEPT !.pc = IF ok THEN "mode" ELSE "exit1"]
    /\ UNCHANGED <<cfg, env, pc, mon_stop, mon_state, attempt, probe, ksTargets,
                   cyc, ksFailedBefore, strays, tor, sock>>

\* use_menu = not args.no_menu and cfg["USE_CURSES"]; headless mode
\* constructs and starts its Monitor at once
ChooseMode(no_menu) ==
    /\ main.pc = "mode"
    /\ IF ~no_menu /\ cfg.USE_CURSES
       THEN /\ main' = [main EXCEPT !.pc = "menu"]
            /\ UNCHANGED <<pc, mon_stop, mon_state, attempt, probe, ksTargets,
                           cyc, ksFailedBefore, strays>>
       ELSE /\ main' = [main EXCEPT !.pc = "headless"]
            /\ NewMonitor
    /\ UNCHANGED <<cfg, env, tor, sock>>

\* curses.wrapper(MenuApp(...).run) raises: main falls back to a Monitor of
\* its own, whatever the menu had started
CursesFails ==
    /\ main.pc = "menu"
    /\ main' = [main EXCEPT !.pc = "fallback"]
    /\ NewMonitor
    /\ UNCHANGED <<cfg, env, tor, sock>>

InitStartup ==
    /\ cfg = DefaultCfg
    /\ env = [platform |-> "linux", nmcli |-> FALSE, root |-> TRUE]
    /\ pc = "notStarted"
    /\ mon_stop = FALSE
    /\ mon_state = "None"
    /\ attempt = 0
    /\ probe = ProbeInit
    /\ ksTargets = <<>>
    /\ cyc = CycInit
    /\ ksFailedBefore = FALSE
    /\ strays = 0
    /\ main = MainInit
    /\ tor = TorIdle
    /\ sock = SockIdle

NextStartup ==
    \/ main.pc = "read" /\ \E file \in CfgFiles : ReadCfg(file)
    \/ ReadCfgFails
    \/ ParseLine
    \/ ParseReturn
    \/ Validate
    \/ \E ok \in BOOLEAN : CheckDeps(ok)
    \/ \E no_menu \in BOOLEAN : ChooseMode(no_menu)
    \/ StartMonitor
    \/ CursesFails

SpecStartup == InitStartup /\ [][NextStartup]_vars

----------------------------------------------------------------------------
(* Tor integration: get_tor_control_port (src/tor_integration.py)          *)
(*                                                                         *)
(* A torrc line is the list of words line.split() yields; the first word   *)
(* is kept whole, the second is a sequence of characters handed to int().  *)

MaxTorrcLines == 2  \* longest torrc file read

Torrcs == 2         \* torrc_paths on Linux without a Tor Browser install

TorWord(first, second) == [first |-> first, second |-> second]

TorrcLines ==
    { TorWord("ControlPort", << <<"9", "0", "5", "1">> >>),
      TorWord("ControlPort", << <<"0">> >>),
      TorWord("ControlPort", << <<"7", "0", "0", "0", "0">> >>),
      TorWord("ControlPort", << <<"a", "u", "t", "o">> >>),
      TorWord("ControlPort", <<>>),
      TorWord("SocksPort", << <<"9", "0", "5", "0">> >>) }

\* A torrc path: absent, present but failing on open, or its lines
TorrcFiles ==
    { [state |-> "missing", lines |-> <<>>],
      [state |-> "unreadable", lines |-> <<>>] }
    \cup { [state |-> "ok", lines |-> l] :
             l \in UNION {[1..n -> TorrcLines] : n \in 0..MaxTorrcLines} }

\* line.strip().startswith("ControlPort")
IsControlPort(word) == word \in {"ControlPort", "ControlPortWriteToFile"}

\* The inner loop over the lines of one torrc: the first ControlPort line
\* whose second word int() accepts decides
RECURSIVE PortInLines(_)
PortInLines(lines) ==
    IF lines = <<>> THEN [ok |-> FALSE, val |-> 0]
    ELSE LET line == Head(lines) IN
         IF /\ IsControlPort(line.first)
            /\ line.second # <<>>
            /\ int(line.second[1]).ok
         THEN int(line.second[1])
         ELSE PortInLines(Tail(lines))

RECURSIVE PortInFiles(_)
PortInFiles(files) ==
    IF files = <<>> THEN [ok |-> FALSE, val |-> 0]
    ELSE IF Head(files).state = "ok" /\ PortInLines(Head(files).lines).ok
         THEN PortInLines(Head(files).lines)
         ELSE PortInFiles(Tail(files))

\* for port in common_ports: if is_port_open("127.0.0.1", port): return port
FirstOpen(open) ==
    IF 9051 \in open THEN [kind |-> "port", port |-> 9051]
    ELSE IF 9151 \in open THEN [kind |-> "port", port |-> 9151]
    ELSE [kind |-> "None", port |-> 0]

get_tor_control_port(files, open) ==
    IF PortInFiles(files).ok
    THEN [kind |-> "port", port |-> PortInFiles(files).val]
    ELSE FirstOpen(open)

InitTor ==
    /\ cfg = DefaultCfg
    /\ env = [platform |-> "linux", nmcli |-> FALSE, root |-> TRUE]
    /\ pc = "notStarted"
    /\ mon_stop = FALSE
    /\ mon_state = "None"
    /\ attempt = 0
    /\ probe = ProbeInit
    /\ ksTargets = <<>>
    /\ cyc = CycInit
    /\ ksFailedBefore = FALSE
    /\ strays = 0
    /\ main = MainInit
    /\ tor \in [files : [1..Torrcs -> TorrcFiles],
                open : SUBSET {9051, 9151},
                result : {[kind |-> "pending", port |-> 0]}]
    /\ sock = SockIdle

GetTorControlPort ==
    /\ tor.result.kind = "pending"
    /\ tor' = [tor EXCEPT !.result = get_tor_control_port(tor.files, tor.open)]
    /\ UNCHANGED <<cfg, env, pc, mon_stop, mon_state, attempt, probe, ksTargets,
                   cyc, ksFailedBefore, strays, main, sock>>

NextTor == GetTorControlPort

SpecTor == InitTor /\ [][NextTor]_vars

----------------------------------------------------------------------------
(* The liveness probe: socks_alive and have_tor_process                     *)
(*                                                                         *)
(* The environment fixes what a connection to each (host, port) meets and  *)
(* what running pgrep meets; the probe is followed connection by           *)
(* connection.                                                             *)

MaxHosts == 2       \* longest CHECK_HOSTS list probed
MaxPorts == 2       \* longest SOCKS_PORTS list probed

ProbeHosts == { <<"1", "2", "7", ".", "0", ".", "0", ".", "1">>, <<":", ":", "1">> }

ProbePorts == {9050, 9150}

\* s.connect((host, port)) returns, or raises one of these
ConnOutcomes ==
    {"connected", "socket.timeout", "ConnectionRefusedError", "OSError"}

\* subprocess.check_output(["pgrep", "-x", "tor"]) returns output, returns
\* nothing, or raises one of these
PgrepOutcomes ==
    {"output", "empty", "CalledProcessError", "TimeoutExpired",
     "FileNotFoundError"}

SocketCaught_timeoutOnly == {"socket.timeout"}

\* except (socket.timeout, socket.error, OSError): socket.error is OSError,
\* and the timeout and refusal classes derive from it
SocketCaught == {"socket.timeout", "ConnectionRefusedError", "OSError"}

\* the three except clauses of have_tor_process
PgrepCaught == {"CalledProcessError", "TimeoutExpired", "FileNotFoundError"}

\* family = socket.AF_INET6 if ":" in host else socket.AF_INET
Family(host) ==
    IF \E i \in DOMAIN host : host[i] = ":" THEN "AF_INET6" ELSE "AF_INET"

Attempt(host, port) == [host |-> host, family |-> Family(host), port |-> port]

RECURSIVE PortLoop_noReturn(_, _, _, _)
PortLoop_noReturn(host, ports, conn, tried) ==
    IF ports = <<>>
    THEN [done |-> FALSE, raised |-> FALSE, tried |-> tried]
    ELSE LET now == Append(tried, Attempt(host, Head(ports)))
             rest == PortLoop_noReturn(host, Tail(ports), conn, now)
         IN  IF conn[<<host, Head(ports)>>] = "connected"
             THEN [rest EXCEPT !.done = TRUE]
             ELSE IF conn[<<host, Head(ports)>>] \in SocketCaught
             THEN rest
             ELSE [done |-> TRUE, raised |-> TRUE, tried |-> now]

RECURSIVE PortLoop(_, _, _, _)
\* for port in cfg["SOCKS_PORTS"]: connect; return True on success, continue
\* on a caught error.  `done`: socks_alive is left (by the return, or by an
\* error no clause catches).
PortLoop(host, ports, conn, tried) ==
    IF ports = <<>>
    THEN [done |-> FALSE, raised |-> FALSE, tried |-> tried]
    ELSE LET now == Append(tried, Attempt(host, Head(ports)))
         IN  IF conn[<<host, Head(ports)>>] = "connected"
             THEN [done |-> TRUE, raised |-> FALSE, tried |-> now]
             ELSE IF conn[<<host, Head(ports)>>] \in SocketCaught
             THEN PortLoop(host, Tail(ports), conn, now)
             ELSE [done |-> TRUE, raised |-> TRUE, tried |-> now]

RECURSIVE HostLoop(_, _, _, _)
\* for host in cfg["CHECK_HOSTS"]: ...   return False
HostLoop(hosts, ports, conn, tried) ==
    IF hosts = <<>>
    THEN [raised |-> FALSE, val |-> FALSE, tried |-> tried]
    ELSE LET r == PortLoop(Head(hosts), ports, conn, tried)
         IN  IF r.done
             THEN [raised |-> r.raised, val |-> ~r.raised, tried |-> r.tried]
             ELSE HostLoop(Tail(hosts), ports, conn, r.tried)

socks_alive(c, conn) == HostLoop(c.CHECK_HOSTS, c.SOCKS_PORTS, conn, <<>>)

\* result = bool(out.strip()); each caught error returns False
have_tor_process(outcome) ==
    IF outcome = "output" THEN [raised |-> FALSE, val |-> TRUE]
    ELSE IF outcome = "empty" THEN [raised |-> FALSE, val |-> FALSE]
    ELSE IF outcome \in PgrepCaught THEN [raised |-> FALSE, val |-> FALSE]
    ELSE [raised |-> TRUE, val |-> FALSE]

SeqsUpTo(S, n) == UNION {[1..k -> S] : k \in 0..n}

InitProbe ==
    /\ cfg \in { [DefaultCfg EXCEPT !.CHECK_HOSTS = hosts, !.SOCKS_PORTS = ports] :
                    hosts \in SeqsUpTo(ProbeHosts, MaxHosts),
                    ports \in SeqsUpTo(ProbePorts, MaxPorts) }
    /\ env = [platform |-> "linux", nmcli |-> FALSE, root |-> TRUE]
    /\ pc = "probe"
    /\ mon_stop = FALSE
    /\ mon_state = "None"
    /\ attempt = 0
    /\ probe = ProbeInit
    /\ ksTargets = <<>>
    /\ cyc = CycInit
    /\ ksFailedBefore = FALSE
    /\ strays = 0
    /\ main = [MainInMenu EXCEPT !.pc = "headless"]
    /\ tor = TorIdle
    /\ sock \in [ conn : [ProbeHosts \X ProbePorts -> ConnOutcomes],
                   pgrep : PgrepOutcomes,
                   tried : {<<>>},
                   pgrepCalled : {FALSE},
                   result : {[kind |-> "pending", socks |-> FALSE,
                              proc |-> FALSE, alive |-> FALSE]} ]

\* alive = socks_alive(self.cfg) or have_tor_process(), followed into the
\* two functions: have_tor_process is called only when socks_alive returned
\* False, and an error that neither function catches leaves Monitor.run.
LivenessProbe ==
    /\ pc = "probe"
    /\ sock.result.kind = "pending"
    /\ LET s == socks_alive(cfg, sock.conn)
           called == ~s.raised /\ ~s.val
           h == IF called THEN have_tor_process(sock.pgrep)
                ELSE [raised |-> FALSE, val |-> FALSE]
           raised == s.raised \/ h.raised
       IN  /\ sock' = [sock EXCEPT
                         !.tried = s.tried,
                         !.pgrepCalled = called,
                         !.result =
                            IF raised
                            THEN [kind |-> "raised", socks |-> FALSE,
                                  proc |-> FALSE, alive |-> FALSE]
                            ELSE [kind |-> "value", socks |-> s.val,
                                  proc |-> h.val,
                                  alive |-> IsAlive(s.val, h.val)]]
           /\ pc' = IF raised THEN "crashed"
                    ELSE IF IsAlive(s.val, h.val) THEN "sleepInterval"
                    ELSE "grace"
    /\ UNCHANGED <<cfg, env, mon_stop, mon_state, attempt, probe, ksTargets,
                   cyc, ksFailedBefore, strays, main, tor>>

NextProbe == LivenessProbe

SpecProbe == InitProbe /\ [][NextProbe]_vars

----------------------------------------------------------------------------
(* Properties *)

\* C1: in an iteration where a re-probe succeeded, health is Healthy, the
\* worker is back at the top of the loop, and neither the warning presenter,
\* nor the consent prompt, nor the kill-switch was invoked.
C1_RecoveredReturnsHealthy ==
    cyc.recovered =>
        /\ mon_state = "True"
        /\ pc = "loopTop"
        /\ cyc.warn = 0 /\ cyc.warnRet = 0
        /\ cyc.prompts = 0 /\ cyc.resp = <<>>
        /\ cyc.ks = 0 /\ cyc.gate = 0 /\ cyc.cmds = <<>>

\* The last of RETRIES = MaxRetries re-probes is the one that succeeded.
C1_Witness ==
    /\ cyc.recovered
    /\ cfg.RETRIES = MaxRetries
    /\ cyc.fails = cfg.RETRIES
    /\ pc = "loopTop"

\* C2: once the steady-state probe and all RETRIES re-probes have failed the
\* warning presenter is invoked, it is invoked once only, and the consent
\* prompt is issued only after that one invocation has returned.
C2_WarningOnceBeforeConsent ==
    /\ cyc.warn <= 1
    /\ cyc.fails = cfg.RETRIES + 1 => (pc = "warning" \/ cyc.warn = 1)
    /\ (pc = "consent" \/ cyc.prompts > 0) =>
            (cyc.fails = cfg.RETRIES + 1 /\ cyc.warn = 1 /\ cyc.warnRet = 1)

C2_Witness ==
    /\ pc = "consent"
    /\ ~mon_stop
    /\ cfg.RETRIES = MaxRetries
    /\ cyc.fails = cfg.RETRIES + 1
    /\ cyc.warn = 1 /\ cyc.warnRet = 1

\* C3: with REQUIRE_CONFIRM true, a disabling command is issued only after
\* the kill-switch's own prompt was answered YES; a refusal there returns
\* failure with no command issued; after a YES the command is issued.
C3_GateBeforeCommand ==
    cfg.REQUIRE_CONFIRM =>
        /\ (pc = "ksRun" \/ cyc.cmds # <<>>) =>
                (cyc.gate = 1 /\ cyc.gateResp # <<>> /\ strip(cyc.gateResp[1]) = YES)
        /\ (cyc.gateResp # <<>> /\ strip(cyc.gateResp[1]) # YES) =>
                (cyc.cmds = <<>> /\ cyc.abort = "ksFailed" /\ pc = "loopTop")
        /\ (cyc.gateResp # <<>> /\ strip(cyc.gateResp[1]) = YES) =>
                (pc = "ksRun" \/ cyc.cmds # <<>>)

\* Both interfaces of a disable-all path were disabled behind the gate.
C3_Witness ==
    /\ cfg.REQUIRE_CONFIRM
    /\ env.platform = "windows"
    /\ cyc.gateResp = <<YES>>
    /\ Len(cyc.cmds) = 2

\* C4: bring_down_network is never started once the stop flag is set.
C4_NoKillSwitchAfterStop == ~cyc.ksAfterStop

\* C5: after a stop() that arrived during a grace delay the worker makes no
\* further probe, shows no warning, and its only move is to exit.
C5_StopInGraceExits ==
    cyc.stopInGrace =>
        /\ pc \in {"grace", "stopped"}
        /\ cyc.warn = 0
        /\ cyc.fails = attempt + 1

\* The stop arrived in the second grace delay and the worker has exited.
C5_Witness ==
    /\ cyc.stopInGrace
    /\ pc = "stopped"
    /\ cyc.fails = 2

\* C6: the liveness value acted on, at the top of the loop and at each
\* re-probe, is the disjunction of the socket signal and the process signal.
C6_LivenessIsOr ==
    probe.at # "none" =>
        /\ probe.alive = (probe.socks \/ probe.proc)
        /\ pc = "sleepInterval" => (probe.socks \/ probe.proc)
        /\ pc \in {"grace", "reprobe", "warning"} => ~(probe.socks \/ probe.proc)

\* A re-probe counted as alive on the process signal alone.
C6_Witness ==
    /\ probe.at = "retry"
    /\ ~probe.socks /\ probe.proc
    /\ probe.alive
    /\ cyc.recovered

\* C7: choose_iface returns the first enumerated interface that is in a
\* non-empty whitelist, no target when a non-empty whitelist matches none,
\* the first enumerated interface when the whitelist is empty, and no
\* target when nothing is enumerated.
C7_ChooseIface ==
    cyc.chosen # "NA" =>
        LET up == cyc.enum[1]
            wl == cfg.INTERFACE_WHITELIST
            hit == {i \in DOMAIN up : up[i] \in wl}
        IN  /\ (wl # {} /\ hit # {}) =>
                    \E i \in hit : cyc.chosen = up[i] /\ \A j \in hit : i <= j
            /\ (wl # {} /\ hit = {}) => cyc.chosen = "None"
            /\ (wl = {} /\ up # <<>>) => cyc.chosen = up[1]
            /\ up = <<>> => cyc.chosen = "None"

C7_Witness ==
    /\ cyc.enum = << <<"e0", "e1", "e2">> >>
    /\ cfg.INTERFACE_WHITELIST = {"e1"}
    /\ cyc.chosen = "e1"

\* C8: with REQUIRE_CONFIRM false the monitor solicits no operator response
\* before the privilege check and the kill-switch.
C8_NoPromptWithoutConfirm ==
    ~cfg.REQUIRE_CONFIRM => (pc # "consent" /\ cyc.prompts = 0 /\ cyc.resp = <<>>)

\* C9: after a response at the consent prompt that is not YES the kill-switch
\* is not invoked in that iteration (nothing enumerated, no kill-switch
\* prompt, no command) and the worker is still running.
C9_RefusalNoKillSwitch ==
    (cyc.resp # <<>> /\ strip(cyc.resp[1]) # YES) =>
        /\ cyc.ks = 0 /\ cyc.enum = <<>> /\ cyc.chosen = "NA"
        /\ cyc.gate = 0 /\ cyc.cmds = <<>>
        /\ cyc.abort = "refused"
        /\ pc \in {"sleepAbort", "loopTop"}

C9_Witness ==
    /\ cyc.resp = << <<"y", "e", "s">> >>
    /\ pc = "sleepAbort"
    /\ env.root

\* C10: whenever an iteration was abandoned (refusal, missing privilege or
\* kill-switch failure) the next probe finds health Down and comes after a
\* CHECK_INTERVAL sleep.
C10_AbortSetsDownAndWaits ==
    (cyc.abort # "none" /\ pc = "loopTop") => (mon_state = "False" /\ cyc.slept)


\* C11: after a YES at the consent prompt in a process without root
\* privilege the kill-switch is not invoked (nothing enumerated, no gate, no
\* command), "Must be root" is printed, the prompt is not repeated in that
\* iteration, and the worker is back at the top of its loop.
C11_NotRootNoKillSwitch ==
    (cyc.resp # <<>> /\ strip(cyc.resp[1]) = YES /\ ~env.root) =>
        /\ cyc.ks = 0 /\ cyc.enum = <<>> /\ cyc.chosen = "NA"
        /\ cyc.gate = 0 /\ cyc.cmds = <<>>
        /\ cyc.said = "Must be root"
        /\ cyc.abort = "notRoot"
        /\ cyc.prompts = 1 /\ cyc.warn = 1
        /\ pc = "loopTop"

C11_Witness ==
    /\ ~env.root
    /\ cyc.resp = <<YES>>
    /\ cyc.abort = "notRoot"
    /\ pc = "loopTop"

\* C12: a failed kill-switch call leaves the worker running at the top of
\* its loop, and in a later iteration of the same Monitor a persistent
\* outage leads to the warning again.
C12_KillSwitchFailureResumes ==
    /\ cyc.abort = "ksFailed" =>
            (pc = "loopTop" /\ ksFailedBefore /\ cyc.ks = 1 /\ cyc.said = "none")
    /\ (ksFailedBefore /\ cyc.fails = cfg.RETRIES + 1) =>
            (pc = "warning" \/ cyc.warn = 1)

\* The warning is up again in an iteration after the one whose kill-switch
\* call failed.
C12_Witness ==
    /\ ksFailedBefore
    /\ cyc.abort = "none" /\ cyc.ks = 0
    /\ pc = "warningShown"

\* C13: when every disabling command returned 0 the guidance has been
\* printed and the worker has left its loop for good; it left it after the
\* one warning and the RETRIES + 1 failed probes of that iteration, and the
\* only commands issued are disabling ones.
C13_SuccessEndsLoop ==
    LET allOk == /\ cyc.cmds # <<>>
                 /\ \A i \in DOMAIN cyc.cmds : cyc.cmds[i].rc = "rc0"
    IN  /\ allOk =>
            /\ pc = "terminated"
            /\ cyc.said = "Network disabled; re-enable guidance"
            /\ cyc.fails = cfg.RETRIES + 1 /\ cyc.warn = 1
            /\ \A i \in DOMAIN cyc.cmds :
                   cyc.cmds[i].cmd \in
                       { "nmcli networking off", "ip link set down",
                         "networksetup -setnetworkserviceenabled off",
                         "netsh interface set interface admin=disable" }
        /\ pc = "terminated" => allOk

C13_Witness ==
    /\ pc = "terminated"
    /\ Len(cyc.cmds) = 2
    /\ env.platform = "darwin"

\* C14: once a Monitor has ended on a successful network disable, no
\* Monitor runs in the process any more.
C14_NoMonitorAfterDisable == [][pc = "terminated" => pc' = "terminated"]_vars

\* C15: the worker never leaves its loop on an error.
C15_WorkerNeverCrashes == pc # "crashed"

\* C16 (as stated): in the end-to-end scenario the YES at the consent prompt
\* is the only answer asked of the operator before the command for e0.
C16_SingleYesDisables ==
    ( /\ cfg.RETRIES = 2 /\ cfg.INTERFACE_WHITELIST = {}
      /\ env.platform = "linux" /\ ~env.nmcli /\ env.root
      /\ cyc.enum = << <<"e0">> >>
      /\ cyc.resp = <<YES>> ) =>
        /\ cyc.gate = 0
        /\ (pc \in {"ksGate", "ksRun"} \/ cyc.cmds # <<>>)

\* C16 (amended): in the end-to-end scenario (RETRIES = 2, root, Linux
\* without nmcli, empty whitelist, e0 the one active interface) a YES at the
\* consent prompt comes after three failed probes and one warning and
\* selects e0; once the kill-switch's own gate is passed (a second YES when
\* REQUIRE_CONFIRM is true) the one command issued is the interface-down
\* command for e0, and when it returns 0 the worker is Terminated.
C16_EndToEnd ==
    ( /\ cfg.RETRIES = 2 /\ cfg.INTERFACE_WHITELIST = {}
      /\ env.platform = "linux" /\ ~env.nmcli /\ env.root
      /\ cyc.enum = << <<"e0">> >>
      /\ cyc.resp = <<YES>> ) =>
        /\ cyc.fails = 3 /\ cyc.warn = 1 /\ cyc.warnRet = 1
        /\ cyc.prompts = 1 /\ cyc.ks = 1
        /\ cyc.chosen = "e0"
        /\ ( \/ cfg.REQUIRE_CONFIRM /\ cyc.gateResp = <<YES>>
             \/ ~cfg.REQUIRE_CONFIRM /\ pc # "ksGate" ) =>
                (pc = "ksRun" \/ cyc.cmds # <<>>)
        /\ cyc.cmds # <<>> =>
                /\ Len(cyc.cmds) = 1
                /\ cyc.cmds[1].cmd = "ip link set down"
                /\ cyc.cmds[1].target = "e0"
                /\ cfg.REQUIRE_CONFIRM => cyc.gate = 1 /\ cyc.gateResp # <<>>
                /\ cyc.cmds[1].rc = "rc0" <=> pc = "terminated"

C16_Witness ==
    /\ cfg.RETRIES = 2 /\ cfg.INTERFACE_WHITELIST = {}
    /\ env.platform = "linux" /\ ~env.nmcli /\ env.root
    /\ cfg.REQUIRE_CONFIRM
    /\ cyc.enum = << <<"e0">> >>
    /\ cyc.resp = <<YES>> /\ cyc.gateResp = <<YES>>
    /\ cyc.cmds # <<>>
    /\ pc = "terminated"

\* C17 (as stated): at the consent prompt and at the kill-switch's gate every
\* line other than the three characters YES is a refusal.
C17_OnlyExactYes ==
    /\ (cyc.resp # <<>> /\ cyc.resp[1] # YES) => cyc.abort = "refused"
    /\ (cyc.gateResp # <<>> /\ cyc.gateResp[1] # YES) =>
            (cyc.cmds = <<>> /\ cyc.abort = "ksFailed")

\* C17 (amended): at the consent prompt and at the kill-switch's gate a line
\* counts as consent exactly when it is YES with nothing but whitespace
\* before and after it; every other line is a refusal.
C17_StrippedYes ==
    LET Padded(l) ==
            \E i \in 1..(Len(l) - 2) :
                /\ l[i] = "Y" /\ l[i + 1] = "E" /\ l[i + 2] = "S"
                /\ \A k \in DOMAIN l :
                       (k < i \/ k > i + 2) => l[k] \in {" ", "\t"}
    IN  /\ cyc.resp # <<>> =>
                (cyc.abort = "refused" <=> ~Padded(cyc.resp[1]))
        /\ cyc.resp # <<>> =>
                (Padded(cyc.resp[1]) <=> (cyc.ks = 1 \/ cyc.abort = "notRoot"))
        /\ cyc.gateResp # <<>> =>
                (Padded(cyc.gateResp[1]) <=> (pc = "ksRun" \/ cyc.cmds # <<>>))
        /\ cyc.gateResp # <<>> =>
                (~Padded(cyc.gateResp[1]) <=>
                    (cyc.cmds = <<>> /\ cyc.abort = "ksFailed"))

\* A padded YES was taken as consent at both prompts.
C17_Witness ==
    /\ cyc.resp = << <<" ", "Y", "E", "S", " ">> >>
    /\ cyc.gateResp = << <<" ", "Y", "E", "S", " ">> >>
    /\ cyc.cmds # <<>>

\* C18: the stop flag of a Monitor starts unset and, once set, stays set
\* through every later step taken on that Monitor.
C18_StopMonotonic ==
    /\ ~mon_stop
    /\ [][ LET newMonitor == ~WorkerAlive /\ pc' = "loopTop"
           IN  /\ newMonitor => ~mon_stop'
               /\ (mon_stop /\ ~newMonitor) => mon_stop' ]_vars

\* The flag is still set while the worker, stopped at the consent prompt,
\* has gone on into the kill-switch.
C18_Witness ==
    /\ mon_stop
    /\ pc = "ksRun"

\* C19: health is Unknown exactly while no probe of this Monitor has
\* completed.
C19_UnknownOnlyBeforeFirstProbe ==
    (mon_state = "None") <=> (probe.at = "none")

\* C20: while the warning is up, consent is being asked or the kill-switch is
\* running, a status query does not report "Tor OK".
C20_NotHealthyInOutage ==
    pc \in {"warningShown", "consent", "ksDispatch", "ksGate", "ksRun"} =>
        status # "Monitor: RUNNING | State: Tor OK"


\* C21: the health of a running Monitor changes only in a step the worker
\* takes at a probe, a re-probe or the consent answer; start_monitor,
\* stop_monitor and status leave it as it is, and status leaves the stop
\* flag as it is.
C21_HealthSingleWriter ==
    [][ /\ (WorkerAlive /\ mon_state' # mon_state) =>
                (pc \in {"probe", "reprobe", "consent"} /\ pc' # pc)
        /\ (WorkerAlive /\ (StartMonitor \/ StopMonitor \/ Status)) =>
                mon_state' = mon_state
        /\ Status => mon_stop' = mon_stop ]_vars

\* stop_monitor has acted on a worker whose health was Healthy.
C21_Witness ==
    /\ WorkerAlive
    /\ mon_stop
    /\ mon_state = "True"
    /\ pc = "sleepInterval"

\* C22: no Monitor thread is alive besides the one the menu holds, and while
\* that one is alive, stop requested or not, start_monitor answers "Monitor
\* already running."
C22_AtMostOneWorker ==
    /\ strays = 0
    /\ WorkerAlive => start_monitor(WorkerAlive) = "Monitor already running."

\* A worker that was asked to stop is still alive, blocked at the consent
\* prompt.
C22_Witness ==
    /\ WorkerAlive
    /\ mon_stop
    /\ pc = "consent"
    /\ strays = 0

\* C23: the consent prompt is issued only after the operator acknowledged
\* the warning.
C23_PromptAfterAck == cyc.prompts > 0 => cyc.ack

\* C24 (as stated): with a non-empty whitelist every disabling command
\* targets a whitelisted interface, on every platform path.
C24_WhitelistEverywhere ==
    cfg.INTERFACE_WHITELIST # {} =>
        \A i \in DOMAIN cyc.cmds :
            cyc.cmds[i].target \in cfg.INTERFACE_WHITELIST

\* C24 (amended): on the single-interface path (Linux without nmcli) a
\* non-empty whitelist confines the one disabling command to a whitelisted
\* interface, and no command is issued when no active interface is
\* whitelisted; the nmcli toggle and the disable-all paths do not read the
\* whitelist.
C24_WhitelistOnIpPath ==
    (cfg.INTERFACE_WHITELIST # {} /\ env.platform = "linux" /\ ~env.nmcli) =>
        /\ Len(cyc.cmds) <= 1
        /\ \A i \in DOMAIN cyc.cmds :
               cyc.cmds[i].target \in cfg.INTERFACE_WHITELIST
        /\ (cyc.enum # <<>> /\
            \A j \in DOMAIN cyc.enum[1] :
                cyc.enum[1][j] \notin cfg.INTERFACE_WHITELIST) =>
                    (cyc.cmds = <<>> /\ cyc.gate = 0 /\ cyc.abort = "ksFailed")

\* The second active interface is the whitelisted one and was brought down.
C24_Witness ==
    /\ env.platform = "linux" /\ ~env.nmcli
    /\ cfg.INTERFACE_WHITELIST = {"e1"}
    /\ cyc.enum = << <<"e0", "e1">> >>
    /\ cyc.cmds # <<>>
    /\ cyc.cmds[1].target = "e1"

\* C25: on the disable-all paths, once the gate is passed there is one
\* command per discovered target, in order, whatever the earlier commands
\* returned, and the worker ends on success exactly when every command
\* returned 0.
C25_DisableAllContinues ==
    (env.platform \in {"darwin", "windows"} /\ cyc.cmds # <<>>) =>
        /\ cyc.enum # <<>>
        /\ Len(cyc.cmds) = Len(cyc.enum[1])
        /\ \A i \in DOMAIN cyc.cmds : cyc.cmds[i].target = cyc.enum[1][i]
        /\ (\A i \in DOMAIN cyc.cmds : cyc.cmds[i].rc = "rc0") <=>
                pc = "terminated"
        /\ (\E i \in DOMAIN cyc.cmds : cyc.cmds[i].rc # "rc0") <=>
                (cyc.abort = "ksFailed" /\ pc = "loopTop")

\* The first command timed out, the second one ran and returned 0.
C25_Witness ==
    /\ env.platform = "darwin"
    /\ Len(cyc.cmds) = 2
    /\ cyc.cmds[1].rc = "exc"
    /\ cyc.cmds[2].rc = "rc0"
    /\ cyc.abort = "ksFailed"

\* C26: the verdict of validate_config on the parsed configuration is true
\* exactly when every SOCKS port is in 1..65535, CHECK_HOSTS is non-empty,
\* GRACE_SECONDS >= 0, RETRIES >= 1 and CHECK_INTERVAL >= 1; validate_port
\* is true exactly on 1..65535.
C26_ValidateConfig ==
    /\ main.valid # "NA" =>
        ( main.valid = "True" <=>
            /\ \A i \in DOMAIN cfg.SOCKS_PORTS :
                   cfg.SOCKS_PORTS[i] >= 1 /\ cfg.SOCKS_PORTS[i] <= 65535
            /\ Len(cfg.CHECK_HOSTS) > 0
            /\ cfg.GRACE_SECONDS >= 0
            /\ cfg.RETRIES >= 1
            /\ cfg.CHECK_INTERVAL >= 1 )
    /\ \A p \in {0 - 1, 0, 1, 9050, 65535, 65536} :
            validate_port(p) <=> (p >= 1 /\ p <= 65535)

\* Port 0 is the only thing wrong with the configuration, and it was
\* rejected.
C26_Witness ==
    /\ main.valid = "False"
    /\ cfg = [DefaultCfg EXCEPT !.SOCKS_PORTS = <<0>>]

\* C27: a Monitor exists, and main is past validation on any of its paths,
\* only with a configuration that passes validation; with one that fails,
\* main is at its exit and no Monitor was constructed; and the configuration
\* does not change once parse_cfg has returned.
C27_NoMonitorWithInvalidConfig ==
    /\ pc = "notStarted" /\ strays = 0
    /\ [][ LET valid ==
                 /\ \A i \in DOMAIN cfg.SOCKS_PORTS :
                        cfg.SOCKS_PORTS[i] >= 1 /\ cfg.SOCKS_PORTS[i] <= 65535
                 /\ cfg.CHECK_HOSTS # <<>>
                 /\ cfg.GRACE_SECONDS >= 0
                 /\ cfg.RETRIES >= 1
                 /\ cfg.CHECK_INTERVAL >= 1
               monitor == pc # "notStarted" \/ strays > 0
               past == main.pc \in {"deps", "mode", "menu", "headless", "fallback"}
               ended == main.pc = "exit1" /\ pc = "notStarted" /\ strays = 0
               parsed == main.pc \notin {"read", "parse"}
           IN  /\ (monitor' \/ past') => valid'
               /\ (~valid' /\ main'.pc # "validate" /\ parsed') => ended'
               /\ parsed => cfg' = cfg ]_vars

\* RETRIES=0 was read and main ended at its exit with no Monitor.
C27_Witness ==
    /\ cfg.RETRIES = 0
    /\ main.pc = "exit1"
    /\ main.valid = "False"
    /\ pc = "notStarted"

\* C28: a line whose value does not parse (a non-numeric piece in
\* SOCKS_PORTS, a non-numeric or empty number) leaves the whole dictionary
\* as it was, and parsing goes on with the next line.
C28_BadLineSkipped ==
    [][ ( /\ main.pc = "parse"
          /\ main.ln <= Len(main.raw)
          /\ main.raw[main.ln] \in
                { [kind |-> "kv", k |-> "SOCKS_PORTS",
                   v |-> <<"9", "0", "5", "0", ",", "a", "b", "c">>],
                  [kind |-> "kv", k |-> "GRACE_SECONDS", v |-> <<"x">>],
                  [kind |-> "kv", k |-> "RETRIES", v |-> <<>>],
                  [kind |-> "kv", k |-> "CHECK_INTERVAL",
                   v |-> <<"1", ".", "5">>] } )
        => ( /\ cfg' = cfg
             /\ main' = [main EXCEPT !.ln = main.ln + 1] ) ]_vars

\* SOCKS_PORTS=9050,abc was passed over, keeping the default ports, and the
\* following line RETRIES=3 was applied.
C28_Witness ==
    /\ main.pc = "parse"
    /\ main.ln = 3
    /\ main.raw[1] = [kind |-> "kv", k |-> "SOCKS_PORTS",
                      v |-> <<"9", "0", "5", "0", ",", "a", "b", "c">>]
    /\ main.raw[2] = [kind |-> "kv", k |-> "RETRIES", v |-> <<"3">>]
    /\ cfg.SOCKS_PORTS = <<9050, 9150>>
    /\ cfg.RETRIES = 3

\* C29: a line for a boolean key sets the key to true when its value is a
\* spelling of 1, true, yes, y or on in any letter case with any surrounding
\* whitespace, and to false for every other value.
C29_ToBool ==
    [][ \A K \in {"REQUIRE_CONFIRM", "USE_TK", "USE_CURSES"} :
          ( /\ main.pc = "parse"
            /\ main.ln <= Len(main.raw)
            /\ main.raw[main.ln].kind = "kv"
            /\ main.raw[main.ln].k = K )
          => cfg'[K] =
                ( main.raw[main.ln].v \in
                    { <<"1">>, <<"t", "r", "u", "e">>, <<"T", "R", "U", "E">>,
                      <<"y", "e", "s">>, <<" ", "Y", "e", "s", " ">>,
                      <<"y">>, <<"o", "n">>, <<"O", "N">> } ) ]_vars

\* REQUIRE_CONFIRM=false was read, then REQUIRE_CONFIRM= Yes  set it back.
C29_Witness ==
    /\ main.pc = "parse"
    /\ main.ln = 3
    /\ main.raw[1] = [kind |-> "kv", k |-> "REQUIRE_CONFIRM",
                      v |-> <<"f", "a", "l", "s", "e">>]
    /\ main.raw[2] = [kind |-> "kv", k |-> "REQUIRE_CONFIRM",
                      v |-> <<" ", "Y", "e", "s", " ">>]
    /\ cfg.REQUIRE_CONFIRM

\* C30: a port returned by get_tor_control_port is in 1..65535.
C30_ControlPortInRange ==
    tor.result.kind = "port" =>
        (tor.result.port >= 1 /\ tor.result.port <= 65535)

----------------------------------------------------------------------------
(* Behaviour of the detection cycle as a whole *)

\* C31: the step that calls show_fullscreen_warning is taken at the end of
\* the retry loop, after exactly RETRIES + 1 failed probes of this cycle
\* (the steady-state probe and RETRIES re-probes, none of them live); the
\* worker arrives there only from a failed last re-probe, and every
\* re-probe is entered from the end of a grace delay.
C31_WarningAfterAllRetries ==
    [][ /\ cyc'.warn > cyc.warn =>
            /\ pc = "warning"
            /\ cyc.warn = 0
            /\ cyc.fails = cfg.RETRIES + 1
            /\ attempt = cfg.RETRIES
            /\ ~cyc.recovered
            /\ ~probe.alive
        /\ (pc' = "warning" /\ pc # "warning") =>
            /\ pc = "reprobe"
            /\ ~probe'.alive
            /\ attempt' = cfg.RETRIES
            /\ cyc'.fails = cfg.RETRIES + 1
        /\ (pc' = "reprobe" /\ pc # "reprobe") =>
            /\ pc = "grace"
            /\ cyc.fails = attempt + 1
        /\ (pc' = "grace" /\ pc # "grace") =>
            /\ pc \in {"probe", "reprobe"}
            /\ ~probe'.alive ]_vars

\* A second warning of the same Monitor: an earlier cycle was abandoned
\* when the kill-switch failed, and the warning is up again after three
\* failed probes with RETRIES = 2.
C31_Witness ==
    /\ pc = "warningShown"
    /\ ksFailedBefore
    /\ cfg.RETRIES = 2
    /\ cyc.warn = 1
    /\ cyc.fails = 3

\* C33: on Linux with nmcli present the kill-switch lists no interfaces and
\* chooses none; the one command it may issue is "nmcli networking off",
\* and the call succeeds (the worker terminates) exactly when that command
\* returned 0, failing back into the loop otherwise.
C33_NmcliOnlyToggle ==
    (env.platform = "linux" /\ env.nmcli) =>
        /\ cyc.enum = <<>>
        /\ cyc.chosen = "NA"
        /\ Len(cyc.cmds) <= 1
        /\ \A i \in DOMAIN cyc.cmds :
              /\ cyc.cmds[i].cmd = "nmcli networking off"
              /\ cyc.cmds[i].target = "networking"
        /\ cyc.cmds # <<>> =>
              IF cyc.cmds[1].rc = "rc0"
              THEN pc = "terminated"
              ELSE pc = "loopTop" /\ cyc.abort = "ksFailed"

\* The toggle was issued and returned a non-zero code: the kill-switch
\* failed.
C33_Witness ==
    /\ env.platform = "linux" /\ env.nmcli
    /\ Len(cyc.cmds) = 1
    /\ cyc.cmds[1].rc = "rc1"
    /\ pc = "loopTop"

\* C34: when the enumeration offers no eligible target (Linux without
\* nmcli: no active interface, or a non-empty whitelist that none of them
\* is in; macOS: no service; Windows: no interface) the kill-switch has
\* failed back into the loop with no gate prompt issued and no command run.
C34_NoTargetFailsQuietly ==
    ( /\ cyc.enum # <<>>
      /\ LET up == cyc.enum[1]
             wl == cfg.INTERFACE_WHITELIST
         IN  IF env.platform = "linux"
             THEN \/ up = <<>>
                  \/ wl # {} /\ \A i \in DOMAIN up : up[i] \notin wl
             ELSE up = <<>> )
    => /\ pc = "loopTop"
       /\ cyc.abort = "ksFailed"
       /\ cyc.gate = 0
       /\ cyc.gateResp = <<>>
       /\ cyc.cmds = <<>>
       /\ ksTargets = <<>>

\* Two interfaces are up and none is whitelisted: the kill-switch failed
\* without a prompt.
C34_Witness ==
    /\ env.platform = "linux" /\ ~env.nmcli
    /\ cfg.INTERFACE_WHITELIST = {"e1"}
    /\ cyc.enum = << <<"e0", "e2">> >>
    /\ cyc.chosen = "None"
    /\ pc = "loopTop"
    /\ cyc.gate = 0

\* C37: once show_fullscreen_warning was called, the ASCII prompt is the
\* presenter exactly when neither the image overlay nor the Tk window
\* presented the warning.
C37_AsciiWhenOthersFail ==
    cyc.warn > 0 =>
        (cyc.presenter = "ascii" <=> cyc.presenter \notin {"image", "tk"})

\* C38: with REQUIRE_CONFIRM true, the kill-switch's gate prompt is issued
\* once, after a stripped YES at the consent prompt; a command was run only
\* after a stripped YES at the gate as well; and any other answer at the
\* gate left no command run and the worker back at the loop with a failed
\* kill-switch.
C38_TwoAffirmations ==
    cfg.REQUIRE_CONFIRM =>
        /\ cyc.gate > 0 =>
              /\ cyc.gate = 1
              /\ cyc.prompts = 1
              /\ Len(cyc.resp) = 1
              /\ strip(cyc.resp[1]) = YES
        /\ cyc.cmds # <<>> =>
              /\ cyc.gate = 1
              /\ Len(cyc.gateResp) = 1
              /\ strip(cyc.gateResp[1]) = YES
        /\ (Len(cyc.gateResp) = 1 /\ strip(cyc.gateResp[1]) # YES) =>
              /\ cyc.cmds = <<>>
              /\ pc = "loopTop"
              /\ cyc.abort = "ksFailed"

\* YES at the consent prompt, then a lower-case yes at the gate: refused.
C38_Witness ==
    /\ cfg.REQUIRE_CONFIRM
    /\ cyc.resp = <<YES>>
    /\ cyc.gateResp = << <<"y", "e", "s">> >>
    /\ pc = "loopTop"
    /\ cyc.abort = "ksFailed"

\* C39: the step that calls bring_down_network is taken from the consent
\* prompt, once in a cycle, after RETRIES + 1 failed probes with neither
\* signal alive on the last, one warning that returned, one consent prompt
\* answered with a stripped YES, and as root; the consent prompt is issued
\* only when the warning has returned; and while the kill-switch is in
\* progress the last probe still has both signals dead.
C39_KillSwitchPreconditions ==
    [][ /\ cyc'.ks > cyc.ks =>
            /\ pc = "consent" /\ pc' = "ksDispatch"
            /\ cyc.ks = 0
            /\ cyc.fails = cfg.RETRIES + 1
            /\ ~cyc.recovered
            /\ ~probe.socks /\ ~probe.proc
            /\ cyc.warn = 1 /\ cyc.warnRet = 1
            /\ cyc.prompts = 1
            /\ Len(cyc'.resp) = 1 /\ strip(cyc'.resp[1]) = YES
            /\ env.root
        /\ cyc'.prompts > cyc.prompts =>
            /\ cyc.warn = 1 /\ cyc'.warnRet = 1
            /\ cyc.fails = cfg.RETRIES + 1
        /\ pc \in {"ksDispatch", "ksGate", "ksRun"} =>
            /\ cyc.ks = 1
            /\ ~probe.socks /\ ~probe.proc ]_vars

\* The kill-switch ran to its commands in a cycle with RETRIES = 2.
C39_Witness ==
    /\ cfg.RETRIES = 2
    /\ cyc.ks = 1
    /\ cyc.fails = 3
    /\ cyc.cmds # <<>>

\* C40: when the warning returns with the stop flag set, the worker leaves
\* run() at once: no consent prompt is issued, bring_down_network is not
\* called, and the health value is left as it was; a worker that has left
\* does nothing more.
C40_StopDuringWarning ==
    [][ /\ (pc = "warningShown" /\ mon_stop /\ cyc'.warnRet > cyc.warnRet) =>
            /\ pc' = "stopped"
            /\ cyc'.prompts = cyc.prompts
            /\ cyc'.resp = cyc.resp
            /\ cyc'.ks = cyc.ks
            /\ cyc'.cmds = cyc.cmds
            /\ mon_state' = mon_state
        /\ (pc = "stopped" /\ pc' = "stopped") =>
            /\ cyc' = cyc
            /\ mon_state' = mon_state ]_vars

\* The worker was healthy before the outage, was stopped while the warning
\* was up, and has left with health still True and no prompt issued.
C40_Witness ==
    /\ pc = "stopped"
    /\ mon_stop
    /\ cyc.warnRet = 1
    /\ cyc.prompts = 0
    /\ cyc.ks = 0
    /\ mon_state = "True"

\* C32: once the stop flag of a running Monitor is set, its worker thread
\* ends (it returns from run(), or leaves it through sys.exit or an
\* error), provided its sleeps end, its probes and commands return and its
\* prompts are answered.
C32_StopLeadsToExit == (mon_stop /\ WorkerAlive) ~> ~WorkerAlive

\* The worker returned from run() on the stop flag after a refused consent.
C32_Witness ==
    /\ pc = "stopped"
    /\ mon_stop
    /\ mon_state = "False"

\* C35: socks_alive tried the (host, port) pairs host-major in configured
\* order, no pair after the first that accepted the connection; it
\* returned true exactly when some configured pair accepts, having stopped
\* at the first such pair, and false after trying every pair, which is no
\* pair at all when either list is empty.
C35_SocksAlive ==
    sock.result.kind = "value" =>
        LET hosts == cfg.CHECK_HOSTS
            ports == cfg.SOCKS_PORTS
            n == Len(ports)
            t == sock.tried
        IN  /\ sock.result.socks <=>
                  \E i \in DOMAIN hosts, j \in DOMAIN ports :
                      sock.conn[<<hosts[i], ports[j]>>] = "connected"
            /\ Len(t) <= Len(hosts) * n
            /\ \A k \in DOMAIN t :
                  /\ t[k].host = hosts[((k - 1) \div n) + 1]
                  /\ t[k].port = ports[((k - 1) % n) + 1]
                  /\ k < Len(t) => sock.conn[<<t[k].host, t[k].port>>] # "connected"
            /\ sock.result.socks =>
                  /\ t # <<>>
                  /\ sock.conn[<<t[Len(t)].host, t[Len(t)].port>>] = "connected"
            /\ ~sock.result.socks => Len(t) = Len(hosts) * n
            /\ (hosts = <<>> \/ ports = <<>>) =>
                  (~sock.result.socks /\ t = <<>>)

\* Two hosts and two ports: the first host accepts on neither port, the
\* second accepts on both; the third pair tried was the last.
C35_Witness ==
    /\ sock.result.kind = "value"
    /\ Len(cfg.CHECK_HOSTS) = 2 /\ Len(cfg.SOCKS_PORTS) = 2
    /\ cfg.SOCKS_PORTS[1] # cfg.SOCKS_PORTS[2]
    /\ Len(sock.tried) = 3
    /\ sock.tried[3].host = cfg.CHECK_HOSTS[2]
    /\ sock.tried[3].port = cfg.SOCKS_PORTS[1]
    /\ sock.conn[<<cfg.CHECK_HOSTS[2], cfg.SOCKS_PORTS[2]>>] = "connected"
    /\ sock.result.socks

\* C36: the liveness probe always yields a value to Monitor.run: a
\* connection that times out, is refused or is unreachable counts as not
\* accepted, and pgrep missing, timing out or returning non-zero makes the
\* process signal false; the other signal still decides the result.
C36_ProbeNeverRaises ==
    sock.result.kind # "pending" =>
        /\ sock.result.kind = "value"
        /\ pc # "crashed"
        /\ sock.result.alive = (sock.result.socks \/ sock.result.proc)
        /\ (\A i \in DOMAIN cfg.CHECK_HOSTS, j \in DOMAIN cfg.SOCKS_PORTS :
                sock.conn[<<cfg.CHECK_HOSTS[i], cfg.SOCKS_PORTS[j]>>]
                    \in {"socket.timeout", "ConnectionRefusedError", "OSError"})
             => /\ ~sock.result.socks
                /\ sock.pgrepCalled
                /\ sock.result.alive = (sock.pgrep = "output")
        /\ (sock.pgrepCalled /\
              sock.pgrep \in {"FileNotFoundError", "TimeoutExpired",
                              "CalledProcessError"})
             => (~sock.result.proc /\ ~sock.result.alive)
        /\ sock.result.socks => sock.result.alive

\* A timeout, then a refusal, then pgrep not installed: the probe says
\* not alive and the worker goes on to the grace delay.
C36_Witness ==
    /\ sock.result.kind = "value"
    /\ Len(sock.tried) = 2
    /\ sock.conn[<<sock.tried[1].host, sock.tried[1].port>>] = "socket.timeout"
    /\ sock.conn[<<sock.tried[2].host, sock.tried[2].port>>] = "ConnectionRefusedError"
    /\ sock.pgrep = "FileNotFoundError"
    /\ ~sock.result.alive
    /\ pc = "grace"

====
